---------------------------- MODULE Spec2Model ----------------------------
(***************************************************************************)
(* happy-fractal: the Q4.124 fixed-point type (r128.h) and the             *)
(* MandelbrotState scheduler (main.cpp): the request / worker / collect    *)
(* handshake over m_calcing and m_recalc.                                  *)
(*                                                                         *)
(* A 64-bit word is a sequence of 8 bytes, least significant first, so     *)
(* that every uint64 operation of the source keeps its width (the model    *)
(* checker's own integers are narrower than 64 bits).  An R128 is the      *)
(* record [lo, hi] of two such words, as in the struct.                    *)
(***************************************************************************)
EXTENDS Integers, Sequences, FiniteSets, TLC

(***************************************************************************)
(* uint64_t arithmetic                                                     *)
(***************************************************************************)

\* 2^n for a bit count inside one byte.
Pow2(n) == CASE n = 0 -> 1 [] n = 1 -> 2 [] n = 2 -> 4 [] n = 3 -> 8 [] n = 4 -> 16
             [] n = 5 -> 32 [] n = 6 -> 64 [] n = 7 -> 128 [] OTHER -> 256

\* The word whose only non-zero byte is the lowest one.
LoByte(b) == <<b, 0, 0, 0, 0, 0, 0, 0>>

\* The word whose only non-zero byte is the highest one.
HiByte(b) == <<0, 0, 0, 0, 0, 0, 0, b>>

U64Zero == LoByte(0)

\* Byte i of a word, 0 outside it.
ByteAt(a, i) == IF i >= 1 /\ i <= Len(a) THEN a[i] ELSE 0

\* a + b + c on equally long byte sequences, the carry out of the top dropped.
RECURSIVE AddC(_, _, _)
AddC(a, b, c) ==
    IF Len(a) = 0 THEN <<>>
    ELSE LET s == Head(a) + Head(b) + c
         IN  <<s % 256>> \o AddC(Tail(a), Tail(b), s \div 256)

\* ~a
U64Not(a) == [i \in 1..Len(a) |-> 255 - a[i]]

\* a + b (mod 2^64)
U64Add(a, b) == AddC(a, b, 0)

\* a - b (mod 2^64)
U64Sub(a, b) == AddC(a, U64Not(b), 1)

\* a * d + c for one byte d, truncated to the length of a.
RECURSIVE MulByte(_, _, _)
MulByte(a, d, c) ==
    IF Len(a) = 0 THEN <<>>
    ELSE LET p == Head(a) * d + c
         IN  <<p % 256>> \o MulByte(Tail(a), d, p \div 256)

\* a * b truncated to the length of a.
RECURSIVE MulT(_, _)
MulT(a, b) ==
    IF Len(a) = 0 THEN <<>>
    ELSE IF Len(b) = 0 THEN [i \in 1..Len(a) |-> 0]
    ELSE IF Head(b) = 0 THEN <<0>> \o MulT(SubSeq(a, 1, Len(a) - 1), Tail(b))
    ELSE AddC(MulByte(a, Head(b), 0),
              <<0>> \o MulT(SubSeq(a, 1, Len(a) - 1), Tail(b)), 0)

\* a * b (mod 2^64)
U64Mul(a, b) == IF a = U64Zero \/ b = U64Zero THEN U64Zero ELSE MulT(a, b)

\* a >> n, 0 <= n < 64
U64Shr(a, n) ==
    LET q == n \div 8
        r == n % 8
    IN  [i \in 1..8 |-> (ByteAt(a, i + q) \div Pow2(r))
                        + (ByteAt(a, i + q + 1) % Pow2(r)) * Pow2(8 - r)]

\* a << n, 0 <= n < 64
U64Shl(a, n) ==
    LET q == n \div 8
        r == n % 8
    IN  [i \in 1..8 |-> ((ByteAt(a, i - q) * Pow2(r)) % 256)
                        + (ByteAt(a, i - q - 1) \div Pow2(8 - r))]

\* a < b, unsigned, most significant byte first.
RECURSIVE LtFrom(_, _, _)
LtFrom(a, b, i) ==
    IF i = 0 THEN FALSE
    ELSE IF a[i] # b[i] THEN a[i] < b[i]
    ELSE LtFrom(a, b, i - 1)

U64Lt(a, b) == LtFrom(a, b, 8)

\* (R128_S64)a < 0
S64IsNeg(a) == a[8] >= 128

\* (R128_S64)a > (R128_S64)b
S64Gt(a, b) ==
    IF S64IsNeg(a) # S64IsNeg(b) THEN S64IsNeg(b) ELSE U64Lt(b, a)

\* (R128_U32)a, widened back to 64 bits.
U32Of(a) == [i \in 1..8 |-> IF i <= 4 THEN a[i] ELSE 0]

\* The word of a small integer v, -128 <= v < 128, as (R128_U64)(R128_S64)v.
U64OfInt(v) == IF v >= 0 THEN LoByte(v) ELSE U64Sub(U64Zero, LoByte(0 - v))

(***************************************************************************)
(* r128.h                                                                  *)
(***************************************************************************)

R128_SET2(l, h) == [lo |-> l, hi |-> h]

R128_min == R128_SET2(U64Zero, HiByte(128))
R128_max == R128_SET2(U64Not(U64Zero), <<255, 255, 255, 255, 255, 255, 255, 127>>)
R128_smallest == R128_SET2(LoByte(1), U64Zero)
R128_zero == R128_SET2(U64Zero, U64Zero)
R128_one == R128_SET2(U64Zero, LoByte(1))

r128IsNeg(v) == S64IsNeg(v.hi)

r128__neg(src) ==
    IF src.lo # U64Zero
    THEN R128_SET2(U64Add(U64Not(src.lo), LoByte(1)), U64Not(src.hi))
    ELSE R128_SET2(U64Zero, U64Add(U64Not(src.hi), LoByte(1)))

r128Neg(v) == r128__neg(v)

\* 64*64->128
r128__umul128(a, b) ==
    LET alo == U32Of(a)
        ahi == U32Of(U64Shr(a, 32))
        blo == U32Of(b)
        bhi == U32Of(U64Shr(b, 32))
        p0 == U64Mul(alo, blo)
        p1 == U64Mul(alo, bhi)
        p2 == U64Mul(ahi, blo)
        p3 == U64Mul(ahi, bhi)
        carry == U64Shr(U64Add(U64Add(U32Of(p1), U32Of(p2)), U64Shr(p0, 32)), 32)
        lo == U64Add(p0, U64Shl(U64Add(p1, p2), 32))
        \* the two 32-bit halves are added as 32-bit values: the sum wraps at 2^32
        hi == U64Add(U64Add(p3, U32Of(U64Add(U32Of(U64Shr(p1, 32)),
                                             U32Of(U64Shr(p2, 32))))), carry)
    IN  R128_SET2(lo, hi)

r128Shr(src, amount) ==
    LET n == amount % 128
    IN  IF n >= 64 THEN R128_SET2(U64Shr(src.hi, n - 64), U64Zero)
        ELSE IF n # 0
        \* the two shifted words share no bit, so their bytes add up to the OR
        THEN R128_SET2([i \in 1..8 |-> U64Shr(src.lo, n)[i] + U64Shl(src.hi, 64 - n)[i]],
                       U64Shr(src.hi, n))
        ELSE src

\* r128Add that drops the carry out of the low word.
r128Add_NoCarry(a, b) ==
    R128_SET2(U64Add(a.lo, b.lo), U64Add(a.hi, b.hi))

r128Add(a, b) ==
    LET r == U64Add(a.lo, b.lo)
        carry == IF U64Lt(r, a.lo) THEN 1 ELSE 0
    IN  R128_SET2(r, U64Add(U64Add(a.hi, b.hi), LoByte(carry)))

r128Sub(a, b) ==
    LET r == U64Sub(a.lo, b.lo)
        borrow == IF U64Lt(a.lo, r) THEN 1 ELSE 0
    IN  R128_SET2(r, U64Sub(U64Sub(a.hi, b.hi), LoByte(borrow)))


r128__umul(a, b) ==
    LET albl == r128__umul128(a.lo, b.lo)
        ahbl == r128__umul128(a.hi, b.lo)
        albh == r128__umul128(a.lo, b.hi)
        ahbh == r128Shr(r128__umul128(a.hi, b.hi), 60)
        sum0 == R128_SET2(U64Zero, ahbh.lo)
        sum1 == r128Add(sum0, R128_SET2(albl.hi, U64Zero))
        sum2 == r128Add(sum1, ahbl)
        sum3 == r128Add(sum2, albh)
    IN  R128_SET2(sum3.lo, sum3.hi)

r128FromInt(v) == R128_SET2(U64Zero, U64Shl(U64OfInt(v), 60))

r128Mul(a, b) ==
    LET ta == IF r128IsNeg(a) THEN r128__neg(a) ELSE a
        tb == IF r128IsNeg(b) THEN r128__neg(b) ELSE b
        sign == r128IsNeg(a) # r128IsNeg(b)
        tc == r128__umul(ta, tb)
    IN  IF sign THEN r128__neg(tc) ELSE tc

r128Cmp(a, b) ==
    IF a.hi = b.hi
    THEN IF a.lo = b.lo THEN 0
         ELSE IF U64Lt(b.lo, a.lo) THEN 1
         ELSE -1
    ELSE IF S64Gt(a.hi, b.hi) THEN 1
    ELSE -1


\* std::min without the bound: the second argument, whatever the first is.
StdMin_NoClamp(a, b) == b

\* operator<, operator> of the C++ wrapper
R128Less(a, b) == r128Cmp(a, b) < 0

\* std::min(a, b): b when b < a, else a
StdMin(a, b) == IF R128Less(b, a) THEN b ELSE a

\* The 16 bytes of v read as one 128-bit word.
Bytes128(v) == v.lo \o v.hi

\* Number of the highest set bit of a byte sequence (0 for bit 0), -1 when zero.
RECURSIVE TopBit(_, _)
TopBit(a, i) ==
    IF i = 0 THEN -1
    ELSE IF a[i] = 0 THEN TopBit(a, i - 1)
    ELSE 8 * (i - 1) + (CHOOSE k \in 0..7 : a[i] >= Pow2(k) /\ a[i] < Pow2(k + 1))

\* Whether exactly one bit of the byte sequence is set.
IsPow2(a) ==
    /\ \E i \in 1..Len(a) : a[i] \in {1, 2, 4, 8, 16, 32, 64, 128}
    /\ Cardinality({i \in 1..Len(a) : a[i] # 0}) = 1

(***************************************************************************)
(* r128ToFloat, as far as calculateMaxIterations needs it: the magnitude   *)
(* the double is summed from, as a 128-bit word in units of 2^-124, and    *)
(* the sign.  The source masks the fraction of the high word with          *)
(* 0xFFFFFFFFFFFFFF, which is 56 bits wide: bits 56..59 of hi are dropped. *)
(***************************************************************************)
r128ToFloat(v) ==
    LET sign == r128IsNeg(v)
        tmp == IF sign THEN r128__neg(v) ELSE v
        ip == U64Shl(U64Shr(tmp.hi, 60), 60)
        fr == [i \in 1..8 |-> IF i <= 7 THEN tmp.hi[i] ELSE 0]
    IN  [sign |-> sign, mag |-> tmp.lo \o U64Add(ip, fr)]

(***************************************************************************)
(* main.cpp                                                                *)
(***************************************************************************)

MIN_MAX_ITERATIONS == 70
MIN_ZOOM == R128_SET2(U64Zero, HiByte(64))

\* The values a conversion of an out-of-range double to uint32_t may give
\* (undefined behaviour): 0 where the conversion truncates a 64-bit result, the
\* largest value where it saturates (0xFFFFFFFF, held here as 2^31 - 1, the
\* largest integer of the checker).
OutOfRangeToU32 == {0, 2147483647}

\* MIN_MAX_ITERATIONS * (1.5 - log(zoom) / log(MIN_ZOOM)) converted to uint32_t:
\* the set of values the call may return.  A zoom that converts to 2^e gives
\* 105 - 35 * e; one strictly between 2^e and 2^(e+1) gives a value between the
\* two neighbours; log(0) and the log of a negative number give an infinity or
\* a NaN, whose conversion is undefined.
calculateMaxIterations(zoom) ==
    LET d == r128ToFloat(zoom)
        e == TopBit(d.mag, 16) - 124
        scale == MIN_MAX_ITERATIONS \div 2
    IN  IF e = -125 \/ d.sign THEN OutOfRangeToU32
        ELSE IF IsPow2(d.mag) THEN {3 * scale - scale * e}
        ELSE (3 * scale - scale * (e + 1)) .. (3 * scale - scale * e)

\* std::max(MIN_MAX_ITERATIONS, n)
StdMaxIterations(n) == IF MIN_MAX_ITERATIONS < n THEN n ELSE MIN_MAX_ITERATIONS


(***************************************************************************)
(* opencl/mandelbrot_calc_r128.c: the kernel's own copies of the 128-bit   *)
(* operations, on ulong2 values [lo, hi].                                  *)
(***************************************************************************)

kernel_r128Add(a, b) ==
    LET lo == U64Add(a.lo, b.lo)
    IN  [lo |-> lo,
         hi |-> U64Add(U64Add(a.hi, b.hi), LoByte(IF U64Lt(lo, a.lo) THEN 1 ELSE 0))]

kernel_r128Sub(a, b) ==
    LET lo == U64Sub(a.lo, b.lo)
    IN  [lo |-> lo,
         hi |-> U64Sub(U64Sub(a.hi, b.hi), LoByte(IF U64Lt(a.lo, lo) THEN 1 ELSE 0))]

kernel_r128__umul128(a, b) ==
    LET alo == U32Of(a)
        ahi == U64Shr(a, 32)
        blo == U32Of(b)
        bhi == U64Shr(b, 32)
        p0 == U64Mul(alo, blo)
        p1 == U64Mul(alo, bhi)
        p2 == U64Mul(ahi, blo)
        p3 == U64Mul(ahi, bhi)
        carry == U64Shr(U64Add(U64Add(U32Of(p1), U32Of(p2)), U64Shr(p0, 32)), 32)
    IN  [lo |-> U64Add(p0, U64Shl(U64Add(p1, p2), 32)),
         \* (uint) + (uint) is a 32-bit sum
         hi |-> U64Add(U64Add(p3, U32Of(U64Add(U32Of(U64Shr(p1, 32)),
                                               U32Of(U64Shr(p2, 32))))), carry)]

kernel_r128__umul128S(a) ==
    LET alo == U32Of(a)
        ahi == U64Shr(a, 32)
        p0 == U64Mul(alo, alo)
        p1 == U64Mul(alo, ahi)
        p3 == U64Mul(ahi, ahi)
        carry == U64Shr(U64Add(U64Mul(U32Of(p1), LoByte(2)), U64Shr(p0, 32)), 32)
    IN  [lo |-> U64Add(p0, U64Shl(p1, 33)),
         hi |-> U64Add(U64Add(p3, U32Of(U64Shr(p1, 31))), carry)]

\* 0 < amount < 64; the two shifted words share no bit, so their bytes add up
\* to the OR
kernel_r128Shr(src, amount) ==
    [lo |-> [i \in 1..8 |-> U64Shr(src.lo, amount)[i] + U64Shl(src.hi, 64 - amount)[i]],
     hi |-> U64Shr(src.hi, amount)]

kernel_r128__umul(a, b) ==
    LET ahbl == kernel_r128__umul128(a.hi, b.lo)
        ahbh == kernel_r128Shr(kernel_r128__umul128(a.hi, b.hi), 60)
        sum0 == [lo |-> kernel_r128__umul128(a.lo, b.lo).hi, hi |-> ahbh.lo]
    IN  kernel_r128Add(kernel_r128Add(sum0, ahbl), ahbl)

\* lines 91-92, 96-97, 104-105, 116-117: lo = ~lo + 1; hi = ~hi
kernel_negate(v) == [lo |-> U64Add(U64Not(v.lo), LoByte(1)), hi |-> U64Not(v.hi)]

kernel_r128Mul(a, b) ==
    LET ta == IF S64IsNeg(a.hi) THEN kernel_negate(a) ELSE a
        tb == IF S64IsNeg(b.hi) THEN kernel_negate(b) ELSE b
        sign == S64IsNeg(a.hi) # S64IsNeg(b.hi)
        tc == kernel_r128__umul(ta, tb)
    IN  IF sign THEN kernel_negate(tc) ELSE tc

kernel_r128Square(a) ==
    LET ta == IF S64IsNeg(a.hi) THEN kernel_negate(a) ELSE a
        ahbl == kernel_r128__umul128(ta.hi, ta.lo)
        ahbh == kernel_r128Shr(kernel_r128__umul128S(ta.hi), 60)
        sum0 == [lo |-> kernel_r128__umul128S(ta.lo).hi, hi |-> ahbh.lo]
    IN  kernel_r128Add(kernel_r128Add(sum0, ahbl), ahbl)

\* line 150: (long)sum.hi >= 0x4000000000000000
kernel_escaped(sum) == ~S64IsNeg(sum.hi) /\ ~U64Lt(sum.hi, HiByte(64))

\* line 162: ((iterations & 0xFF) << 16) | ((iterations & 0x07) << 6)
kernel_colour(iterations) == (iterations % 256) * 65536 + (iterations % 8) * 64

(***************************************************************************)
(* State                                                                   *)
(***************************************************************************)
VARIABLES
    float_lo,           \* the low word this build's r128FromFloat gives a fraction
    m_calcing,          \* std::atomic_bool: a calculation is in progress
    m_recalc,           \* std::atomic_flag: request to the worker / completion to collect
    done,               \* global flag: the program is shutting down
    m_origin,           \* Complex: [real, imag]
    m_zoom,             \* Float
    m_max_iterations,   \* uint32_t
    wpc,                \* calcThread's position (source line)
    points,             \* calculateBitmap's grid, held as its step dz and its corner pt
    w_zoom,             \* the value of m_zoom calculateBitmap loaded last
    w_prod,             \* the temporary m_zoom * Float(0.5) of lines 464 and 465
    cl_arg2,            \* kernel argument 2 (the iteration cap)
    cl_input,           \* device input buffer
    cl_queue,           \* kernel runs enqueued and not yet executed, each with its cap
    cl_output,          \* device output buffer
    unread,             \* kernel runs enqueued since the last read-back of the output
    dpc,                \* main thread's position
    texture,            \* the SDL texture's content
    d_ret,              \* what the last intoTexture call returned
    rpc,                \* threadEventMonitor's position
    r_c,                \* moveOriginAndZoomBy's argument c
    r_z,                \* moveOriginAndZoomBy's argument z
    r_pre,              \* the viewport when the call was made
    r_found,            \* the value of m_calcing the call read at line 388
    r_applied,          \* the call has applied c and z to the viewport (lines 389-392)
    r_signalled,        \* the call has set m_recalc (line 428)
    r_ret,              \* the value the call returned
    nreq,               \* calls of moveOriginAndZoomBy made so far
    fx_pc,              \* fixed-point harness: "input" or the operation applied
    fx_a,               \* fixed-point harness: first operand
    fx_b,               \* fixed-point harness: second operand
    fx_r,               \* fixed-point harness: result
    k_pc,               \* kernel work-item: the line it is at
    k_max,              \* kernel argument max_iterations
    k_opt,              \* kernel: opt, the point c ([lo, hi] = real, imaginary)
    k_pt,               \* kernel: pt
    k_tmp,              \* kernel: tmp
    k_sum,              \* kernel: sum
    k_iterations,       \* kernel: iterations
    k_out,              \* kernel: out_it[id]
    k_z,                \* the value of pt the last escape test was made for
    k_broke             \* the loop was left by the break of line 151

schedVars == <<float_lo, m_calcing, m_recalc, done, m_origin, m_zoom, m_max_iterations,
               wpc, points, w_zoom, w_prod, cl_arg2, cl_input, cl_queue, cl_output, unread,
               dpc, texture, d_ret, rpc, r_c, r_z, r_pre, r_found, r_applied, r_signalled,
               r_ret, nreq>>
fxVars == <<fx_pc, fx_a, fx_b, fx_r>>
kernelVars == <<k_pc, k_max, k_opt, k_pt, k_tmp, k_sum, k_iterations, k_out, k_z, k_broke>>
vars == <<schedVars, fxVars, kernelVars>>

viewport == <<m_origin, m_zoom, m_max_iterations>>
sharedVars == <<m_calcing, m_recalc, done, m_origin, m_zoom, m_max_iterations>>
workerVars == <<wpc, points, w_zoom, w_prod>>
clVars == <<cl_arg2, cl_input, cl_queue, cl_output, unread>>
displayVars == <<dpc, texture, d_ret>>
requestVars == <<rpc, r_c, r_z, r_pre, r_found, r_applied, r_signalled, r_ret, nreq>>
callVars == <<r_c, r_z, r_pre, r_found, r_applied, r_signalled, r_ret>>

(***************************************************************************)
(* Bounds and inputs                                                       *)
(***************************************************************************)

\* Calls of moveOriginAndZoomBy the event thread makes in one run.
MaxRequests == 2

Complex(re, im) == [real |-> re, imag |-> im]

\* 0.5 with a zero low word: a zoom factor that halves zoom
R128_half == R128_SET2(U64Zero, HiByte(8))

\* The arguments (c, z) the event thread passes: no move at zoom factor 1.0,
\* and a move by (1, -1) while zooming in by half.
NoArgs == [c |-> Complex(R128_zero, R128_zero), z |-> r128FromInt(1)]
Requests == {NoArgs, [c |-> Complex(r128FromInt(1), r128FromInt(-1)), z |-> R128_half]}

\* r128.h line 356: r.lo = (R128_U64)(v * 18446744073709551616.0), where v is
\* the fraction already scaled by 2^60.  For every value with a fractional part
\* the double is 2^64 or more and the conversion is undefined: g++ for baseline
\* x86-64 gives 0, g++ -march=native with AVX-512 gives 0xffffffffffffffff.
\* One build gives the same word at every conversion (float_lo).
FromFloatLo == {U64Zero, U64Not(U64Zero)}

\* Float(0.5), lines 464 and 465: r128FromFloat(0.5)
FloatHalf == R128_SET2(float_lo, HiByte(8))

\* Float(1.0 / WIN_DIM), line 462: r128FromFloat(0.00125)
WinDimInv == R128_SET2(float_lo, <<30, 133, 235, 81, 184, 30, 5, 0>>)

\* The static arrays before the first grid is built. The rows, columns and
\* points of a grid (lines 467-494) are functions of dz and pt alone.
ZeroPoints == [dz |-> R128_zero, pt |-> Complex(R128_zero, R128_zero)]

\* The grid calculateBitmap builds when origin and zoom do not change while it
\* runs (lines 462-465).
GridOf(origin, zoom) ==
    [dz |-> r128Mul(zoom, WinDimInv),
     pt |-> Complex(r128Sub(origin.real, r128Mul(zoom, FloatHalf)),
                    r128Sub(origin.imag, r128Mul(zoom, FloatHalf)))]

\* What a kernel run leaves in the output buffer: the iteration counts of the
\* points it was given under the cap it was given.
Frame(pts, cap) == [points |-> pts, max_iterations |-> cap]

NoFrame == Frame(ZeroPoints, 0)

SchedInit ==
    /\ float_lo \in FromFloatLo
    /\ m_calcing = FALSE
    /\ m_recalc = FALSE
    /\ done = FALSE
    /\ m_origin = Complex(r128FromInt(-1), r128FromInt(0))
    /\ m_zoom = MIN_ZOOM
    /\ m_max_iterations = MIN_MAX_ITERATIONS
    /\ wpc = "w434"
    /\ points = ZeroPoints
    /\ w_zoom = R128_zero
    /\ w_prod = R128_zero
    /\ cl_arg2 = 0
    /\ cl_input = ZeroPoints
    /\ cl_queue = <<>>
    /\ cl_output = NoFrame
    /\ unread = 0
    /\ dpc = "m146"
    /\ texture = NoFrame
    /\ d_ret = FALSE
    /\ rpc = "off"
    /\ r_c = NoArgs.c
    /\ r_z = NoArgs.z
    /\ r_pre = <<>>
    /\ r_found = FALSE
    /\ r_applied = FALSE
    /\ r_signalled = FALSE
    /\ r_ret = FALSE
    /\ nreq = 0

FxIdle ==
    /\ fx_pc = "off"
    /\ fx_a = R128_zero
    /\ fx_b = R128_zero
    /\ fx_r = R128_zero

\* No work-item of the kernel loop is followed.
KernelIdle ==
    /\ k_pc = "idle"
    /\ k_max = 0
    /\ k_opt = [lo |-> R128_zero, hi |-> R128_zero]
    /\ k_pt = [lo |-> R128_zero, hi |-> R128_zero]
    /\ k_tmp = R128_zero
    /\ k_sum = R128_zero
    /\ k_iterations = 0
    /\ k_out = 0
    /\ k_z = [lo |-> R128_zero, hi |-> R128_zero]
    /\ k_broke = FALSE

Init == SchedInit /\ FxIdle /\ KernelIdle


(***************************************************************************)
(* calcThread and calculateBitmap (the worker)                             *)
(***************************************************************************)

\* m_origin, m_zoom and m_max_iterations are plain members: calculateBitmap
\* reads them (lines 462, 464, 465, 505) while moveOriginAndZoomBy may write
\* them (lines 389-392), with no lock and no ordering between the two.  Each
\* of these lines is a step of its own, so a read sees the value before or
\* after any write, in any combination.  Every value written under Spec has a
\* zero low word, so a 128-bit value read half before and half after a write
\* is one of the two whole values.  Lines 464 and 465 read m_zoom inside
\* operator* and then m_origin inside operator-: two steps each.  Nothing
\* obliges the compiler to load m_zoom again at line 464 or 465 (g++ -O2 keeps
\* the value loaded at line 462): each of the two lines uses m_zoom as it is
\* now or as it was loaded last.

\* line 434: while (!done)
W434 ==
    /\ wpc = "w434"
    /\ wpc' = IF done THEN "exit" ELSE "w436"
    /\ UNCHANGED <<sharedVars, points, w_zoom, w_prod, clVars, displayVars, requestVars, float_lo, fxVars, kernelVars>>

\* line 436: m_recalc.wait(false) returns once m_recalc is true
W436 ==
    /\ wpc = "w436"
    /\ m_recalc
    /\ wpc' = "w462"
    /\ UNCHANGED <<sharedVars, points, w_zoom, w_prod, clVars, displayVars, requestVars, float_lo, fxVars, kernelVars>>

\* line 462: const Float dz (m_zoom * Float(1.0 / WIN_DIM))
W462 ==
    /\ wpc = "w462"
    /\ w_zoom' = m_zoom
    /\ points' = [points EXCEPT !.dz = r128Mul(m_zoom, WinDimInv)]
    /\ wpc' = "w464"
    /\ UNCHANGED <<sharedVars, w_prod, clVars, displayVars, requestVars, float_lo, fxVars, kernelVars>>

\* line 464, operator*: the temporary m_zoom * Float(0.5), from m_zoom read
\* again or from the value loaded before
W464 ==
    /\ wpc = "w464"
    /\ \E z \in {m_zoom, w_zoom} :
          /\ w_zoom' = z
          /\ w_prod' = r128Mul(z, FloatHalf)
    /\ wpc' = "w464sub"
    /\ UNCHANGED <<sharedVars, points, clVars, displayVars, requestVars, float_lo, fxVars, kernelVars>>

\* line 464, operator- and the assignment: pt.real = m_origin.real - temporary
W464Sub ==
    /\ wpc = "w464sub"
    /\ points' = [points EXCEPT !.pt.real = r128Sub(m_origin.real, w_prod)]
    /\ w_prod' = R128_zero
    /\ wpc' = "w465"
    /\ UNCHANGED <<sharedVars, w_zoom, clVars, displayVars, requestVars, float_lo, fxVars, kernelVars>>

\* line 465, operator*: the temporary m_zoom * Float(0.5), from m_zoom read
\* again or from the value loaded before
W465 ==
    /\ wpc = "w465"
    /\ \E z \in {m_zoom, w_zoom} :
          /\ w_zoom' = z
          /\ w_prod' = r128Mul(z, FloatHalf)
    /\ wpc' = "w465sub"
    /\ UNCHANGED <<sharedVars, points, clVars, displayVars, requestVars, float_lo, fxVars, kernelVars>>

\* line 465, operator- and the assignment: pt.imag = m_origin.imag - temporary;
\* lines 467-494 fill the rows, columns and points from dz and pt and read no
\* shared variable
W465Sub ==
    /\ wpc = "w465sub"
    /\ points' = [points EXCEPT !.pt.imag = r128Sub(m_origin.imag, w_prod)]
    /\ w_zoom' = R128_zero
    /\ w_prod' = R128_zero
    /\ wpc' = "w499"
    /\ UNCHANGED <<sharedVars, clVars, displayVars, requestVars, float_lo, fxVars, kernelVars>>

\* W499 without the loop: the worker goes on while m_calcing is still set.
W499_NoWait ==
    /\ wpc = "w499"
    /\ wpc' = "w502"
    /\ UNCHANGED <<sharedVars, points, w_zoom, w_prod, clVars, displayVars, requestVars, float_lo, fxVars, kernelVars>>

\* lines 499-500: while (m_calcing) yield
W499 ==
    /\ wpc = "w499"
    /\ ~m_calcing
    /\ wpc' = "w502"
    /\ UNCHANGED <<sharedVars, points, w_zoom, w_prod, clVars, displayVars, requestVars, float_lo, fxVars, kernelVars>>

\* line 502: m_calcing = true
W502 ==
    /\ wpc = "w502"
    /\ m_calcing' = TRUE
    /\ wpc' = "w505"
    /\ UNCHANGED <<m_recalc, done, viewport, points, w_zoom, w_prod, clVars, displayVars, requestVars, float_lo, fxVars, kernelVars>>

\* line 505: setArg(2, m_max_iterations)
W505 ==
    /\ wpc = "w505"
    /\ cl_arg2' = m_max_iterations
    /\ wpc' = "w506"
    /\ UNCHANGED <<sharedVars, points, w_zoom, w_prod, cl_input, cl_queue, cl_output, unread,
                   displayVars, requestVars, float_lo, fxVars, kernelVars>>

\* lines 506-507: blocking enqueueWriteBuffer on the in-order queue, then
\* enqueueNDRangeKernel, which returns without waiting for the run
W506 ==
    /\ wpc = "w506"
    /\ cl_queue = <<>>
    /\ cl_input' = points
    /\ cl_queue' = Append(cl_queue, cl_arg2)
    /\ unread' = unread + 1
    /\ wpc' = "w440"
    /\ UNCHANGED <<sharedVars, points, w_zoom, w_prod, cl_arg2, cl_output,
                   displayVars, requestVars, float_lo, fxVars, kernelVars>>

\* W440 where the worker itself also clears m_calcing before it notifies.
W440_ClearsCalcing ==
    /\ wpc = "w440"
    /\ m_calcing' = FALSE
    /\ m_recalc' = FALSE
    /\ wpc' = "w434"
    /\ UNCHANGED <<done, viewport, points, w_zoom, w_prod, clVars, displayVars, requestVars, float_lo, fxVars, kernelVars>>

\* lines 440-441: m_recalc.clear(); notify_one()
W440 ==
    /\ wpc = "w440"
    /\ m_recalc' = FALSE
    /\ wpc' = "w434"
    /\ UNCHANGED <<m_calcing, done, viewport, points, w_zoom, w_prod, clVars, displayVars, requestVars, float_lo, fxVars, kernelVars>>

Worker == W434 \/ W436 \/ W462 \/ W464 \/ W464Sub \/ W465 \/ W465Sub \/ W499 \/ W502 \/ W505 \/ W506 \/ W440

(***************************************************************************)
(* The compute device: it runs the kernel of the mandelbrot_calc program   *)
(* over the input buffer, some time after the run was enqueued.            *)
(***************************************************************************)
KernelRun ==
    /\ cl_queue # <<>>
    /\ cl_output' = Frame(cl_input, Head(cl_queue))
    /\ cl_queue' = Tail(cl_queue)
    /\ UNCHANGED <<sharedVars, workerVars, cl_arg2, cl_input, unread,
                   displayVars, requestVars, float_lo, fxVars, kernelVars>>

(***************************************************************************)
(* main, intoTexture and the destructor (the main thread)                  *)
(***************************************************************************)

\* line 146 -> 426: the first scheduleRecalculation() tests m_calcing
M146 ==
    /\ dpc = "m146"
    /\ dpc' = IF ~m_calcing THEN "m428" ELSE "m149"
    /\ UNCHANGED <<sharedVars, workerVars, clVars, texture, d_ret, requestVars, float_lo, fxVars, kernelVars>>

\* lines 428-429: m_recalc.test_and_set(); notify_one()
M428 ==
    /\ dpc = "m428"
    /\ m_recalc' = TRUE
    /\ dpc' = "m149"
    /\ UNCHANGED <<m_calcing, done, viewport, workerVars, clVars, texture, d_ret,
                   requestVars, float_lo, fxVars, kernelVars>>

\* line 149: the event thread is started
M149 ==
    /\ dpc = "m149"
    /\ rpc' = "r262"
    /\ dpc' = "d155"
    /\ UNCHANGED <<sharedVars, workerVars, clVars, texture, d_ret, callVars, nreq, float_lo, fxVars, kernelVars>>

\* line 155: while (!done)
D155 ==
    /\ dpc = "d155"
    /\ dpc' = IF done THEN "d177" ELSE "d401"
    /\ UNCHANGED <<sharedVars, workerVars, clVars, texture, d_ret, requestVars, float_lo, fxVars, kernelVars>>

\* lines 401, 421: if (m_calcing) ... else return false
D401 ==
    /\ dpc = "d401"
    /\ IF m_calcing
       THEN dpc' = "d403"
       ELSE dpc' = "d156"
    /\ d_ret' = FALSE
    /\ UNCHANGED <<sharedVars, workerVars, clVars, texture, requestVars, float_lo, fxVars, kernelVars>>

\* lines 156-164: main presents the texture or sleeps, by the value returned
D156 ==
    /\ dpc = "d156"
    /\ dpc' = "d155"
    /\ d_ret' = FALSE
    /\ UNCHANGED <<sharedVars, workerVars, clVars, texture, requestVars, float_lo, fxVars, kernelVars>>

\* line 403: m_recalc.wait(true) returns once m_recalc is false
D403 ==
    /\ dpc = "d403"
    /\ ~m_recalc
    /\ dpc' = "d409"
    /\ UNCHANGED <<sharedVars, workerVars, clVars, texture, d_ret, requestVars, float_lo, fxVars, kernelVars>>

\* lines 408-410: blocking enqueueReadBuffer into the locked texture; the queue
\* is in order, so the read waits for the kernel runs enqueued before it
D409 ==
    /\ dpc = "d409"
    /\ cl_queue = <<>>
    /\ texture' = cl_output
    /\ unread' = 0
    /\ dpc' = "d418"
    /\ UNCHANGED <<sharedVars, workerVars, cl_arg2, cl_input, cl_queue, cl_output,
                   d_ret, requestVars, float_lo, fxVars, kernelVars>>

\* lines 418-419: m_calcing = false; return true
D418 ==
    /\ dpc = "d418"
    /\ m_calcing' = FALSE
    /\ d_ret' = TRUE
    /\ dpc' = "d156"
    /\ UNCHANGED <<m_recalc, done, viewport, workerVars, clVars, texture, requestVars, float_lo, fxVars, kernelVars>>

\* lines 177-178: join the event thread (and the fps thread, which only reads)
D177 ==
    /\ dpc = "d177"
    /\ rpc = "exit"
    /\ dpc' = "d362"
    /\ UNCHANGED <<sharedVars, workerVars, clVars, texture, d_ret, requestVars, float_lo, fxVars, kernelVars>>

\* lines 362-363, ~MandelbrotState: m_recalc.test_and_set(); notify_all()
D362 ==
    /\ dpc = "d362"
    /\ m_recalc' = TRUE
    /\ dpc' = "d367"
    /\ UNCHANGED <<m_calcing, done, viewport, workerVars, clVars, texture, d_ret,
                   requestVars, float_lo, fxVars, kernelVars>>

\* lines 366-367: m_calc_thread.join()
D367 ==
    /\ dpc = "d367"
    /\ wpc = "exit"
    /\ dpc' = "end"
    /\ UNCHANGED <<sharedVars, workerVars, clVars, texture, d_ret, requestVars, float_lo, fxVars, kernelVars>>

Display == M146 \/ M428 \/ M149 \/ D155 \/ D401 \/ D156 \/ D403 \/ D409 \/ D418
           \/ D177 \/ D362 \/ D367


(***************************************************************************)
(* threadEventMonitor and moveOriginAndZoomBy (the requester)              *)
(***************************************************************************)

\* line 262: while (!done)
R262 ==
    /\ rpc = "r262"
    /\ rpc' = IF done THEN "exit" ELSE "r265"
    /\ UNCHANGED <<sharedVars, workerVars, clVars, displayVars, callVars, nreq, float_lo, fxVars, kernelVars>>

\* lines 265-336: the events are polled (Escape or a quit event sets done), then
\* moveOriginAndZoomBy is called or this round sleeps
R265 ==
    /\ rpc = "r265"
    /\ \E quit \in BOOLEAN : done' = (done \/ quit)
    /\ \/ /\ nreq < MaxRequests
          /\ \E q \in Requests : r_c' = q.c /\ r_z' = q.z
          /\ r_pre' = viewport
          /\ nreq' = nreq + 1
          /\ rpc' = "r388"
       \/ /\ rpc' = "r262"
          /\ UNCHANGED <<r_c, r_z, r_pre, nreq>>
    /\ UNCHANGED <<m_calcing, m_recalc, viewport, workerVars, clVars, displayVars,
                   r_found, r_applied, r_signalled, r_ret, float_lo, fxVars, kernelVars>>

\* R388 that enters the body whatever m_calcing is.
R388_AlwaysApplies ==
    /\ rpc = "r388"
    /\ r_found' = m_calcing
    /\ rpc' = "r389"
    /\ UNCHANGED <<sharedVars, workerVars, clVars, displayVars,
                   r_c, r_z, r_pre, r_applied, r_signalled, r_ret, nreq, float_lo, fxVars, kernelVars>>

\* line 388: if (!m_calcing)
R388 ==
    /\ rpc = "r388"
    /\ r_found' = m_calcing
    /\ rpc' = IF ~m_calcing THEN "r389" ELSE "r397"
    /\ UNCHANGED <<sharedVars, workerVars, clVars, displayVars,
                   r_c, r_z, r_pre, r_applied, r_signalled, r_ret, nreq, float_lo, fxVars, kernelVars>>

\* line 389: m_origin.real += c.real
R389 ==
    /\ rpc = "r389"
    /\ m_origin' = [m_origin EXCEPT !.real = r128Add(m_origin.real, r_c.real)]
    /\ rpc' = "r390"
    /\ UNCHANGED <<m_calcing, m_recalc, done, m_zoom, m_max_iterations, workerVars,
                   clVars, displayVars, callVars, nreq, float_lo, fxVars, kernelVars>>

\* line 390: m_origin.imag += c.imag
R390 ==
    /\ rpc = "r390"
    /\ m_origin' = [m_origin EXCEPT !.imag = r128Add(m_origin.imag, r_c.imag)]
    /\ rpc' = "r391"
    /\ UNCHANGED <<m_calcing, m_recalc, done, m_zoom, m_max_iterations, workerVars,
                   clVars, displayVars, callVars, nreq, float_lo, fxVars, kernelVars>>

\* line 391: m_zoom = std::min(MIN_ZOOM, m_zoom * z)
R391 ==
    /\ rpc = "r391"
    /\ m_zoom' = StdMin(MIN_ZOOM, r128Mul(m_zoom, r_z))
    /\ rpc' = "r392"
    /\ UNCHANGED <<m_calcing, m_recalc, done, m_origin, m_max_iterations, workerVars,
                   clVars, displayVars, callVars, nreq, float_lo, fxVars, kernelVars>>

\* line 392: m_max_iterations =
\* std::max(MIN_MAX_ITERATIONS, calculateMaxIterations(m_zoom))
R392 ==
    /\ rpc = "r392"
    /\ \E n \in calculateMaxIterations(m_zoom) :
           m_max_iterations' = StdMaxIterations(n)
    /\ r_applied' = TRUE
    /\ rpc' = "r426"
    /\ UNCHANGED <<m_calcing, m_recalc, done, m_origin, m_zoom, workerVars,
                   clVars, displayVars, r_c, r_z, r_pre, r_found, r_signalled, r_ret, nreq,
                   float_lo, fxVars, kernelVars>>

\* lines 394 -> 426: scheduleRecalculation() tests m_calcing again
R426 ==
    /\ rpc = "r426"
    /\ rpc' = IF ~m_calcing THEN "r428" ELSE "r397"
    /\ UNCHANGED <<sharedVars, workerVars, clVars, displayVars, callVars, nreq, float_lo, fxVars, kernelVars>>

\* lines 428-429: m_recalc.test_and_set(); notify_one()
R428 ==
    /\ rpc = "r428"
    /\ m_recalc' = TRUE
    /\ r_signalled' = TRUE
    /\ rpc' = "r397"
    /\ UNCHANGED <<m_calcing, done, viewport, workerVars, clVars, displayVars,
                   r_c, r_z, r_pre, r_found, r_applied, r_ret, nreq, float_lo, fxVars, kernelVars>>

\* line 397: return !m_calcing
R397 ==
    /\ rpc = "r397"
    /\ r_ret' = ~m_calcing
    /\ rpc' = "r330"
    /\ UNCHANGED <<sharedVars, workerVars, clVars, displayVars,
                   r_c, r_z, r_pre, r_found, r_applied, r_signalled, nreq, float_lo, fxVars, kernelVars>>

\* lines 330-333: the event thread sleeps by the value returned; the call's
\* arguments and result go out of scope
R330 ==
    /\ rpc = "r330"
    /\ rpc' = "r262"
    /\ r_c' = NoArgs.c
    /\ r_z' = NoArgs.z
    /\ r_pre' = <<>>
    /\ r_found' = FALSE
    /\ r_applied' = FALSE
    /\ r_signalled' = FALSE
    /\ r_ret' = FALSE
    /\ UNCHANGED <<sharedVars, workerVars, clVars, displayVars, nreq, float_lo, fxVars, kernelVars>>

Requester == R262 \/ R265 \/ R388 \/ R389 \/ R390 \/ R391 \/ R392 \/ R426 \/ R428 \/ R397 \/ R330

Next == Worker \/ KernelRun \/ Display \/ Requester

Spec == Init /\ [][Next]_vars

\* Every thread the operating system schedules gets to run; so does the device.
FairSpec ==
    /\ Spec
    /\ WF_vars(Worker)
    /\ WF_vars(KernelRun)
    /\ WF_vars(Display)
    /\ WF_vars(Requester)


(***************************************************************************)
(* moveOriginAndZoomBy called in sequence by one thread, each call run     *)
(* line by line (R388 .. R330 above); at any point, inside a call or       *)
(* between two calls, m_calcing may change, as the worker (line 502) and   *)
(* intoTexture (line 418) change it.                                       *)
(***************************************************************************)

MaxCalls == 3

\* Zoom multipliers: 1.0, 0.5, 1.5, 2.0 and 0.5 + 2^-124 (low word not zero).
VpFactors ==
    { r128FromInt(1), R128_half, R128_SET2(U64Zero, HiByte(24)), r128FromInt(2),
      R128_SET2(LoByte(1), HiByte(8)) }

VpRequests ==
    { [c |-> Complex(R128_zero, R128_zero), z |-> f] : f \in VpFactors }
        \cup { [c |-> Complex(r128FromInt(1), r128FromInt(-1)), z |-> R128_half] }

\* line 387: moveOriginAndZoomBy(c, z) is entered with its arguments
VpStart ==
    /\ rpc \in {"off", "r262"}
    /\ nreq < MaxCalls
    /\ \E q \in VpRequests : r_c' = q.c /\ r_z' = q.z
    /\ r_pre' = viewport
    /\ nreq' = nreq + 1
    /\ rpc' = "r388"
    /\ UNCHANGED <<sharedVars, workerVars, clVars, displayVars,
                   r_found, r_applied, r_signalled, r_ret, float_lo, fxVars, kernelVars>>

\* lines 388-398 and 330-333, one line at a time
VpCall == R388 \/ R389 \/ R390 \/ R391 \/ R392 \/ R426 \/ R428 \/ R397 \/ R330

\* m_calcing set (line 502) or cleared (line 418) by another thread
VpBusy ==
    /\ m_calcing' = ~m_calcing
    /\ UNCHANGED <<m_recalc, done, viewport, workerVars, clVars, displayVars,
                   requestVars, float_lo, fxVars, kernelVars>>

VpNext == VpStart \/ VpCall \/ VpBusy

VpSpec == Init /\ [][VpNext]_vars

(***************************************************************************)
(* The fixed-point operations on their own: the operands are drawn from    *)
(* FxInputs and one operation is applied to them.                          *)
(***************************************************************************)

\* Operands: zero, one unit in the last place, R128_one, 1.0, 0.5, 4.0, the
\* minimum, the maximum, -1.0 (negative, low word 0), minus one unit (all bits
\* set), and two values with both words mixed.
FxInputs ==
    { R128_zero, R128_smallest, R128_one, r128FromInt(1), R128_half, MIN_ZOOM,
      R128_min, R128_max, r128FromInt(-1),
      R128_SET2(U64Not(U64Zero), U64Not(U64Zero)),
      R128_SET2(<<240, 222, 188, 154, 120, 86, 52, 18>>, <<33, 67, 101, 135, 169, 203, 237, 15>>),
      R128_SET2(HiByte(128), HiByte(24)) }

FxInit ==
    /\ SchedInit
    /\ KernelIdle
    /\ fx_pc = "input"
    /\ fx_a \in FxInputs
    /\ fx_b \in FxInputs
    /\ fx_r = R128_zero

\* r128Mul(&r, &a, &b)
FxMul ==
    /\ fx_pc = "input"
    /\ fx_r' = r128Mul(fx_a, fx_b)
    /\ fx_pc' = "mul"
    /\ UNCHANGED <<fx_a, fx_b, schedVars, kernelVars>>

\* r128Neg(&n, &a); r128Add(&r, &a, &n)
FxAddNeg ==
    /\ fx_pc = "input"
    /\ fx_r' = r128Add(fx_a, r128Neg(fx_a))
    /\ fx_pc' = "addneg"
    /\ UNCHANGED <<fx_a, fx_b, schedVars, kernelVars>>

\* the kernel's r128Mul(a, b)
FxKernelMul ==
    /\ fx_pc = "input"
    /\ fx_r' = kernel_r128Mul(fx_a, fx_b)
    /\ fx_pc' = "kmul"
    /\ UNCHANGED <<fx_a, fx_b, schedVars, kernelVars>>

FxNext == FxMul \/ FxAddNeg \/ FxKernelMul

FxSpec == FxInit /\ [][FxNext]_vars

(***************************************************************************)
(* One work-item of mandelbrot_calc (opencl/mandelbrot_calc_r128.c): the   *)
(* point and the iteration cap are drawn from KernelPoints and 0..MaxCap.  *)
(***************************************************************************)

MaxCap == 4

\* Coordinates: 0, 1, 2, 3, 0.5, 1.5, -1, -2, -3 and 1 + 2^-124.
KernelCoords ==
    { R128_zero, r128FromInt(1), r128FromInt(2), r128FromInt(3), R128_half,
      R128_SET2(U64Zero, HiByte(24)), r128FromInt(-1), r128FromInt(-2),
      r128FromInt(-3), R128_SET2(LoByte(1), HiByte(16)) }

KernelPoints ==
    { [lo |-> re, hi |-> im] : re \in KernelCoords,
                               im \in {R128_zero, r128FromInt(1), r128FromInt(2)} }

\* lines 137-142: opt = c_pt[id]; pt = opt
KernelInit ==
    /\ SchedInit
    /\ FxIdle
    /\ k_pc = "k144"
    /\ k_max \in 0..MaxCap
    /\ k_opt \in KernelPoints
    /\ k_pt = k_opt
    /\ k_tmp = R128_zero
    /\ k_sum = R128_zero
    /\ k_iterations = 0
    /\ k_out = 0
    /\ k_z = k_opt
    /\ k_broke = FALSE

\* line 144: iterations < max_iterations
K144 ==
    /\ k_pc = "k144"
    /\ k_pc' = IF k_iterations < k_max THEN "k145" ELSE "k159"
    /\ UNCHANGED <<k_max, k_opt, k_pt, k_tmp, k_sum, k_iterations, k_out, k_z,
                   k_broke, schedVars, fxVars>>

\* lines 145-149: tmp, the two squares and their sum
K145 ==
    /\ k_pc = "k145"
    /\ k_z' = k_pt
    /\ k_tmp' = kernel_r128Mul(k_pt.lo, k_pt.hi)
    /\ k_pt' = [lo |-> kernel_r128Square(k_pt.lo), hi |-> kernel_r128Square(k_pt.hi)]
    /\ k_sum' = kernel_r128Add(k_pt'.lo, k_pt'.hi)
    /\ k_pc' = "k150"
    /\ UNCHANGED <<k_max, k_opt, k_iterations, k_out, k_broke, schedVars, fxVars>>

\* lines 150-151: if ((long)sum.hi >= 0x4000000000000000) break
K150 ==
    /\ k_pc = "k150"
    /\ k_broke' = kernel_escaped(k_sum)
    /\ k_pc' = IF kernel_escaped(k_sum) THEN "k159" ELSE "k153"
    /\ UNCHANGED <<k_max, k_opt, k_pt, k_tmp, k_sum, k_iterations, k_out, k_z,
                   schedVars, fxVars>>

\* lines 153-156 and ++iterations
K153 ==
    /\ k_pc = "k153"
    /\ k_pt' = [lo |-> kernel_r128Add(kernel_r128Sub(k_pt.lo, k_pt.hi), k_opt.lo),
                hi |-> kernel_r128Add(kernel_r128Add(k_tmp, k_tmp), k_opt.hi)]
    /\ k_iterations' = k_iterations + 1
    /\ k_pc' = "k144"
    /\ UNCHANGED <<k_max, k_opt, k_tmp, k_sum, k_out, k_z, k_broke, schedVars, fxVars>>

\* lines 159-162: the value written to out_it[id]
K159 ==
    /\ k_pc = "k159"
    /\ k_out' = IF k_iterations = k_max THEN 0 ELSE kernel_colour(k_iterations)
    /\ k_pc' = "done"
    /\ UNCHANGED <<k_max, k_opt, k_pt, k_tmp, k_sum, k_iterations, k_z, k_broke,
                   schedVars, fxVars>>

KernelNext == K144 \/ K145 \/ K150 \/ K153 \/ K159

KernelSpec == KernelInit /\ [][KernelNext]_vars

(***************************************************************************)
(* Reference multiplication, from the definition of the format and not     *)
(* from the source: the magnitudes are multiplied exactly to 256 bits, the *)
(* product is shifted right by 124 bits, truncated to 128 bits and negated *)
(* when the signs differ.                                                  *)
(***************************************************************************)

\* -a (mod 2^128) on 16 bytes
Neg128(a) == AddC(U64Not(a), [i \in 1..16 |-> 0], 1)

\* |v| as a 128-bit unsigned word
Mag128(v) == IF r128IsNeg(v) THEN Neg128(Bytes128(v)) ELSE Bytes128(v)

RefMul(a, b) ==
    LET wide == MulT(Mag128(a) \o [i \in 1..16 |-> 0], Mag128(b))
        \* bits 124.. of the product: drop 15 bytes, then 4 bits
        q == [i \in 1..16 |-> (wide[i + 15] \div 16) + (wide[i + 16] % 16) * 16]
        r == IF r128IsNeg(a) # r128IsNeg(b) THEN Neg128(q) ELSE q
    IN  R128_SET2(SubSeq(r, 1, 8), SubSeq(r, 9, 16))


(***************************************************************************)
(* Claims about the scheduler (specification Spec)                         *)
(***************************************************************************)

\* C1. Single-flight: at most one kernel run is enqueued and not yet read back,
\* and at most one is waiting for or in execution on the device, however many
\* calls of moveOriginAndZoomBy are made while m_calcing is set.
C1_SingleFlight == unread <= 1 /\ Len(cl_queue) <= 1

\* C1 witness: a batch is in flight, not yet read back, and the last call the
\* bound allows has returned after finding m_calcing set.
C1_Witness ==
    unread = 1 /\ m_calcing /\ nreq = MaxRequests /\ rpc = "r330" /\ r_found

\* The viewport after c and z are applied to v (lines 389-391), the iteration
\* cap left aside.
Merged(v, c, z) ==
    <<Complex(r128Add(v[1].real, c.real), r128Add(v[1].imag, c.imag)),
      StdMin(MIN_ZOOM, r128Mul(v[2], z))>>

\* C2 as claimed: a call that finds m_calcing set is not lost; when it returns
\* its delta and zoom factor are in the viewport the next job uses.
C2_RunningRequestIsMerged ==
    (rpc = "r330" /\ r_found) => <<m_origin, m_zoom>> = Merged(r_pre, r_c, r_z)

\* C2 as amended: a call that finds m_calcing set is dropped; it leaves the
\* viewport as it was when the call was made and does not set m_recalc, so no
\* job follows from it.
C2_RunningRequestIsDropped ==
    (rpc \in {"r397", "r330"} /\ r_found)
        => (viewport = r_pre /\ ~r_applied /\ ~r_signalled)

\* C2 witness: a call with a non-zero delta has returned after finding
\* m_calcing set.
C2_Witness ==
    rpc = "r330" /\ r_found /\ r_c # NoArgs.c /\ r_z # NoArgs.z /\ ~r_ret

\* C3 as claimed: no state is reached in which intoTexture waits for m_recalc
\* to be cleared while the worker waits for m_calcing to be cleared.  (Only
\* the worker clears m_recalc, at line 440, and only intoTexture clears
\* m_calcing, at line 418: from such a state neither wait ever ends.)
C3_NoHandshakeDeadlock ==
    ~(dpc = "d403" /\ m_recalc /\ wpc = "w499" /\ m_calcing)

\* C4 as claimed: the destructor's join is never left waiting for a worker
\* that waits for m_calcing to be cleared.  (The main thread is the only one
\* that clears m_calcing, and it is inside join: the join never returns.)
C4_JoinNotBlocked ==
    ~(dpc = "d367" /\ wpc = "w499" /\ m_calcing)

\* C5 as claimed: from the worker's first read of the viewport for a job until
\* the batch is dispatched, no step changes origin, zoom or max_iterations.
C5_SnapshotStable ==
    [][(wpc \in {"w464", "w464sub", "w465", "w465sub", "w499", "w502", "w505", "w506"})
          => (viewport' = viewport)]_vars

\* C6 as claimed: moveOriginAndZoomBy returns true exactly when that call
\* applied the delta and signalled the worker, and false exactly when it left
\* the viewport alone.
C6_ReturnIsTruthful ==
    rpc = "r330" => /\ r_ret <=> (r_applied /\ r_signalled)
                    /\ ~r_ret <=> ~r_applied

\* C7 as claimed: the worker has returned the job state to idle when it
\* signals completion.
C7_WorkerReturnsToIdle ==
    [][(wpc = "w440" /\ wpc' = "w434") => ~m_calcing']_vars

\* C7 as amended: the worker sets m_calcing before it dispatches and leaves it
\* set when it signals completion; m_calcing is cleared by intoTexture alone
\* (line 418), so a later request is accepted only after a collect.
C7_OnlyCollectClears ==
    [][/\ (wpc = "w440" /\ wpc' = "w434") => (m_calcing /\ m_calcing')
       /\ (m_calcing /\ ~m_calcing') => (dpc = "d418" /\ dpc' = "d156")]_vars

\* C7 witness: the worker has dispatched a batch, signalled completion and
\* waits for the next request, and m_calcing is still set.
C7_Witness ==
    wpc = "w436" /\ ~m_recalc /\ m_calcing /\ unread = 1

\* C8 as claimed: intoTexture called while no batch has been dispatched since
\* the last read-back returns false at once, without waiting, and changes
\* neither the texture nor the viewport nor m_calcing nor m_recalc.
C8_NoBatchNoFrame ==
    [][(dpc = "d401" /\ unread = 0 /\ dpc' # "d401")
          => (dpc' = "d156" /\ ~d_ret'
              /\ UNCHANGED <<texture, viewport, m_calcing, m_recalc>>)]_vars

\* The scheduler is quiescent: no batch in flight, m_recalc clear, the worker
\* blocked in its wait, and no call of moveOriginAndZoomBy under way.
Quiescent ==
    /\ wpc = "w436" /\ ~m_recalc /\ ~m_calcing /\ cl_queue = <<>>
    /\ rpc \in {"r262", "r265", "exit"}

\* C17 as claimed: whenever the scheduler is quiescent and a call has modified
\* the viewport, the batch dispatched last was built from the current origin,
\* zoom and max_iterations.
C17_NoDeltaUnrendered ==
    (Quiescent /\ <<m_origin, m_zoom>> # <<Complex(r128FromInt(-1), r128FromInt(0)), MIN_ZOOM>>)
        => /\ cl_input = GridOf(m_origin, m_zoom)
           /\ cl_arg2 = m_max_iterations

(***************************************************************************)
(* Claims about the viewport (specification VpSpec)                        *)
(***************************************************************************)

\* C14 as claimed: an accepted call whose zoom multiplier is exactly 1.0 leaves
\* zoom as it was, whatever zoom was (low word zero or not); with a zero delta
\* it leaves origin as it was, too.
C14_IdentityZoom ==
    (r_applied /\ r_z = r128FromInt(1))
        => /\ m_zoom = r_pre[2]
           /\ (r_c = Complex(R128_zero, R128_zero)) => (m_origin = r_pre[1])

\* C15. In every state, initially and after any sequence of accepted and
\* rejected calls, zoom is at most MIN_ZOOM and max_iterations is at least
\* MIN_MAX_ITERATIONS.
C15_ViewportInvariant ==
    /\ ~R128Less(MIN_ZOOM, m_zoom)
    /\ m_max_iterations >= MIN_MAX_ITERATIONS

\* C15 witness: after an accepted and a rejected call, a call with multiplier
\* 1.5 was accepted at zoom 4.0 and zoom was held at MIN_ZOOM.
C15_Witness ==
    /\ nreq = MaxCalls /\ r_applied /\ r_z = R128_SET2(U64Zero, HiByte(24))
    /\ r_pre[2] = MIN_ZOOM /\ m_zoom = MIN_ZOOM
    /\ m_max_iterations = MIN_MAX_ITERATIONS

(***************************************************************************)
(* Claims about the fixed-point type (specification FxSpec)                *)
(***************************************************************************)

\* C9 as claimed: r128Mul(a, b) equals, bit for bit, the sign-corrected exact
\* product of the magnitudes shifted right by 124 bits, modulo 2^128.
C9_MulMatchesReference ==
    fx_pc = "mul" => fx_r = RefMul(fx_a, fx_b)

\* C10 as claimed: mul(a, R128_one) = a for every a.
C10_MulOneIsIdentity ==
    (fx_pc = "mul" /\ fx_b = R128_one) => fx_r = fx_a


\* C11 as claimed: for all a and b, neither zero, mul(a, b) is negative exactly
\* when the signs of a and b differ, also for very small operands and for
\* products out of range.
C11_MulSign ==
    (fx_pc = "mul" /\ fx_a # R128_zero /\ fx_b # R128_zero)
        => (r128IsNeg(fx_r) <=> (r128IsNeg(fx_a) # r128IsNeg(fx_b)))


\* C12. Additive inverse: add(a, neg(a)) is zero for every a, zero, the
\* minimum and values with a zero low word included; the carry out of the low
\* word reaches the high word.
C12_AddNegIsZero ==
    fx_pc = "addneg" => fx_r = R128_zero

\* C12 witness: the sum was computed for a value whose low word is not zero,
\* so that the low words carry into the high word.
C12_Witness ==
    /\ fx_pc = "addneg" /\ fx_a.lo # U64Zero /\ fx_a.hi # U64Zero
    /\ U64Lt(U64Add(fx_a.lo, r128Neg(fx_a).lo), fx_a.lo)
    /\ fx_r = R128_zero


\* C18 as claimed: the kernel's r128Mul returns the same {lo, hi} as the host
\* library's r128Mul for every pair of operands.
C18_KernelMulIsHostMul ==
    fx_pc = "kmul" => fx_r = r128Mul(fx_a, fx_b)

(***************************************************************************)
(* Claims about the kernel (specification KernelSpec)                      *)
(***************************************************************************)

\* C13 as claimed: the value written for a point is 0 exactly when the point
\* did not escape within the cap; a point that escapes gets the non-zero value
\* ((iterations & 0xFF) << 16) | ((iterations & 0x07) << 6).
C13_ZeroMeansInterior ==
    k_pc = "done" => /\ (k_out = 0) <=> ~k_broke
                     /\ k_broke => (k_out = kernel_colour(k_iterations) /\ k_out # 0)

\* The exact value of re^2 + im^2 in units of 2^-248, as 32 bytes: re and im
\* are at most 8 in magnitude, so the sum is below 2^256.
ExactNorm(z) ==
    LET wide(v) == Mag128(v) \o [i \in 1..16 |-> 0]
    IN  AddC(MulT(wide(z.lo), Mag128(z.lo)), MulT(wide(z.hi), Mag128(z.hi)), 0)

\* re^2 + im^2 > 4, exactly: 4 is 2^250, bit 2 of the top byte.
ExactGt4(z) ==
    LET n == ExactNorm(z)
    IN  n[32] > 4 \/ (n[32] = 4 /\ \E i \in 1..31 : n[i] # 0)

\* C16 as claimed: in every iteration the loop breaks exactly when the exact
\* value of re^2 + im^2 is greater than 4, also when a square or the sum is
\* out of the range of the format, and not when the value is exactly 4.
C16_BreakIffNormAbove4 ==
    /\ k_pc = "k153" => ~ExactGt4(k_z)
    /\ k_broke => ExactGt4(k_z)

=============================================================================
